---- MODULE Spec2Model ----
(***************************************************************************)
(* Model of the LSM key-value engine (package lsm) with its leaves: the    *)
(* skip list memtable (package skiplist), the write-ahead log (package     *)
(* wal), the SSTable block format (package sstable) and the bloom filter    *)
(* (package bloom).                                                        *)
(*                                                                         *)
(* Byte strings are sequences of numbers 0..255.  Files are byte strings.  *)
(* Skip list nodes are numbered; the number stands for the node's address. *)
(***************************************************************************)
EXTENDS Integers, Sequences, FiniteSets, TLC

VARIABLES
    phase,      \* "down": no engine handle; "open": Open returned an engine
    options,    \* Engine.options.MemtableFlushThreshold
    memtable,   \* Engine.memtable: the skip list, node id -> node
    wal,        \* Engine.wal: TRUE when the bufio.Writer holds a sticky write error
    sstCount,   \* Engine.sstCount
    memSize,    \* Engine.memSize
    walFile,    \* wal.log on disk: [exists, bytes]
    sstFiles,   \* data_<N>.sst on disk: N -> bytes
    ret,        \* the last engine call and what it returned
    ref,        \* reference ordered map: net effect of every accepted Put/Delete
    pending,    \* net effect of the accepted Put/Delete calls since the last completed flush
    pc,         \* concurrent callers: position of each goroutine inside its call
    local       \* concurrent callers: arguments and locals of each goroutine's call

vars == <<phase, options, memtable, wal, sstCount, memSize, walFile, sstFiles,
          ret, ref, pending, pc, local>>

----------------------------------------------------------------------------
(* Bounds of the model *)

\* skiplist.New uses maxLevel = 100; the model keeps the level cap small
MaxLevel == 2
\* most records wal.log may hold before the model stops accepting mutations
MaxWalRecs == 3
\* the same, in the specifications where flushes, faults and restarts multiply the states
MaxWalRecsWide == 2
\* most flushes (data_<N>.sst files) of one engine lifetime
MaxSst == 2
\* most Put calls of one engine lifetime counted by memSize when no threshold flush resets it
MaxPuts == 3
\* goroutines calling into one engine at the same time
NumGoroutines == 2
\* most WriteBlock calls on one table file
MaxBlocks == 2
\* largest bit array and most hash slots of a bloom filter
MaxBloomSize == 5
MaxHashes == 2

Keys == {<<97>>, <<98>>}
Values == {<<1>>, <<2>>}
Thresholds == {0, 4}
Levels == 1..MaxLevel

----------------------------------------------------------------------------
(* bytes.Compare and byte order helpers *)

Min(a, b) == IF a < b THEN a ELSE b

RECURSIVE CompareFrom(_, _, _)
CompareFrom(a, b, i) ==
    IF i > Len(a) /\ i > Len(b) THEN 0
    ELSE IF i > Len(a) THEN -1
    ELSE IF i > Len(b) THEN 1
    ELSE IF a[i] < b[i] THEN -1
    ELSE IF a[i] > b[i] THEN 1
    ELSE CompareFrom(a, b, i + 1)

Compare(a, b) == CompareFrom(a, b, 1)

\* binary.LittleEndian.PutUint32
PutUint32LE(n) ==
    << n % 256, (n \div 256) % 256, (n \div 65536) % 256, (n \div 16777216) % 256 >>

\* binary.LittleEndian.Uint32.  A length of 2^31 or more is longer than any file of the
\* model; it is read as the largest number TLC counts with.
Uint32LE(b) ==
    IF b[4] >= 128 THEN 2147483647
    ELSE b[1] + 256 * b[2] + 65536 * b[3] + 16777216 * b[4]

\* binary.Write(file, binary.BigEndian, int32(n)) for 0 <= n < 2^31
PutInt32BE(n) ==
    << (n \div 16777216) % 256, (n \div 65536) % 256, (n \div 256) % 256, n % 256 >>

\* binary.Read(file, binary.BigEndian, &int32)
Int32BE(b) ==
    LET hi == IF b[1] >= 128 THEN b[1] - 256 ELSE b[1]
    IN  16777216 * hi + 65536 * b[2] + 256 * b[3] + b[4]

----------------------------------------------------------------------------
(* package skiplist *)

\* The one element of a one-element set.  Only({ e(x) : x \in {d} }) reads "e(x) where
\* x is d"; TLC then computes d once.
Only(S) == CHOOSE x \in S : TRUE

NIL == 0        \* a nil *Node
HeadNode == 1   \* SkipList.Head, the sentinel

ErrNone == "nil"
ErrNotFound == "ErrNotFound"
ErrIO == "io error"                  \* a failed open or write of wal.log
ErrInvalid == "invalid argument"     \* a write to a nil *os.File
ErrWrite == "write error"            \* a failed write of a table file
ErrTruncate == "truncate error"      \* a failed truncation of wal.log

\* skiplist.New
New ==
    HeadNode :> [key |-> <<>>, value |-> <<>>, next |-> [i \in 1..MaxLevel |-> NIL]]

\* the inner loop of Put/Get/Delete/Scan at one level: advance while the next key is smaller
RECURSIVE Advance(_, _, _, _)
Advance(sl, x, i, key) ==
    Only({ IF nx # NIL /\ Compare(sl[nx].key, key) < 0
           THEN Advance(sl, nx, i, key)
           ELSE x : nx \in { sl[x].next[i] } })

\* the outer loop from level i down to the bottom; update[j] for j in 1..i
RECURSIVE Descend(_, _, _, _)
Descend(sl, x, i, key) ==
    IF i = 0 THEN << >>
    ELSE Only({ Append(Descend(sl, y, i - 1, key), y) : y \in { Advance(sl, x, i, key) } })

\* a fresh address for a node
NewNode(sl) ==
    CHOOSE n \in 2..(Cardinality(DOMAIN sl) + 2) :
        /\ n \notin DOMAIN sl
        /\ \A m \in 2..(n - 1) : m \in DOMAIN sl

\* the node ids in the order the bottom level links them, from node cur on
RECURSIVE Chain(_, _)
Chain(sl, cur) ==
    IF cur = NIL THEN << >>
    ELSE Only({ << cur >> \o Chain(sl, nx) : nx \in { sl[cur].next[1] } })

\* the heap sl with its nodes renumbered: node order[j] becomes node j
Renumber(sl, order, at) ==
    [j \in 1..Len(order) |->
        [sl[order[j]] EXCEPT !.next =
            [i \in 1..Len(sl[order[j]].next) |->
                IF sl[order[j]].next[i] = NIL THEN NIL
                ELSE at[sl[order[j]].next[i]]]]]

\* The heap after garbage collection.  Addresses are not observable: when every node
\* that a live node links to is on the bottom level, the unreachable nodes leave the
\* heap and the live ones are renumbered in list order, the head first.  Any other
\* heap is left as it is.
Heap(sl0) ==
    Only({ Only({
        IF \A j \in 1..Len(order) : \A i \in 1..Len(sl[order[j]].next) :
              \/ sl[order[j]].next[i] = NIL
              \/ \E m \in 1..Len(order) : order[m] = sl[order[j]].next[i]
        THEN Only({ Renumber(sl, order, at) :
                    at \in { [id \in { order[j] : j \in 1..Len(order) } |->
                                 CHOOSE j \in 1..Len(order) : order[j] = id] } })
        ELSE sl
        : order \in { << HeadNode >> \o Chain(sl, sl[HeadNode].next[1]) } })
      : sl \in { sl0 } })

\* the insertion of Put: node n of level lvl is linked after update[i] at each level
Insert(sl, update, n, key, value, lvl) ==
    [id \in DOMAIN sl \cup {n} |->
        IF id = n
        THEN [key |-> key, value |-> value,
              next |-> [i \in 1..lvl |-> sl[update[i]].next[i]]]
        ELSE [sl[id] EXCEPT !.next =
                [i \in 1..Len(sl[id].next) |->
                    IF i <= lvl /\ update[i] = id THEN n ELSE sl[id].next[i]]]]

\* a Put that links a new node even when the key is present
SkipListPutAlwaysInserts(sl0, key, value, lvl) ==
    Only({ Only({ Only({ Insert(sl, update, n, key, value, lvl) : n \in { NewNode(sl) } })
        : update \in { Descend(sl, HeadNode, MaxLevel, key) } })
      : sl \in { sl0 } })

\* SkipList.Put; lvl is the level the RNG loop draws for a new node
SkipListPut(sl0, key, value, lvl) ==
    Only({ Only({
        IF sl[update[1]].next[1] # NIL
           /\ Compare(sl[sl[update[1]].next[1]].key, key) = 0
        THEN [sl EXCEPT ![sl[update[1]].next[1]].value = value]
        ELSE Only({ Insert(sl, update, n, key, value, lvl) : n \in { NewNode(sl) } })
        : update \in { Descend(sl, HeadNode, MaxLevel, key) } })
      : sl \in { sl0 } })

\* SkipList.Get
SkipListGet(sl0, key) ==
    Only({ Only({
        IF x # NIL /\ Compare(sl[x].key, key) = 0
        THEN [value |-> sl[x].value, err |-> ErrNone]
        ELSE [value |-> <<>>, err |-> ErrNotFound]
        : x \in { sl[Descend(sl, HeadNode, MaxLevel, key)[1]].next[1] } })
      : sl \in { sl0 } })

\* an unlinking that leaves the node linked above the bottom level
UnlinkBottomOnly(sl, update, x) ==
    [id \in DOMAIN sl |->
        [sl[id] EXCEPT !.next =
            [i \in 1..Len(sl[id].next) |->
                IF i = 1 /\ update[i] = id /\ sl[id].next[i] = x
                THEN sl[x].next[i]
                ELSE sl[id].next[i]]]]

\* the unlinking of Delete: node x leaves every level where update[i] links to it
Unlink(sl, update, x) ==
    [id \in DOMAIN sl |->
        [sl[id] EXCEPT !.next =
            [i \in 1..Len(sl[id].next) |->
                IF update[i] = id /\ sl[id].next[i] = x
                THEN sl[x].next[i]
                ELSE sl[id].next[i]]]]

\* SkipList.Delete
SkipListDelete(sl0, key) ==
    Only({ Only({
        IF sl[update[1]].next[1] = NIL
           \/ Compare(sl[sl[update[1]].next[1]].key, key) # 0
        THEN [sl |-> sl, err |-> ErrNotFound]
        ELSE [sl |-> Unlink(sl, update, sl[update[1]].next[1]), err |-> ErrNone]
        : update \in { Descend(sl, HeadNode, MaxLevel, key) } })
      : sl \in { sl0 } })

\* scanIter.Next, called until ok = false; end is [nil, b]
RECURSIVE ScanIter(_, _, _)
ScanIter(sl, cur, end) ==
    IF cur = NIL THEN << >>
    ELSE IF ~end.nil /\ Compare(sl[cur].key, end.b) >= 0 THEN << >>
    ELSE Only({ << [key |-> sl[cur].key, value |-> sl[cur].value] >>
                \o ScanIter(sl, nx, end) : nx \in { sl[cur].next[1] } })

NilBytes == [nil |-> TRUE, b |-> << >>]
Bytes(b) == [nil |-> FALSE, b |-> b]

\* append([]byte(nil), b...): the copy of an empty slice is nil
CopyBytes(b) == IF b.nil \/ Len(b.b) = 0 THEN NilBytes ELSE b

\* SkipList.Scan followed by draining the iterator
Scan(sl0, start, end) ==
    Only({ Only({ ScanIter(sl, sl[x].next[1], CopyBytes(end))
                  : x \in { IF start.nil THEN HeadNode
                            ELSE Descend(sl, HeadNode, MaxLevel, start.b)[1] } })
           : sl \in { sl0 } })

----------------------------------------------------------------------------
(* package wal *)

OpPut == 1
OpDelete == 2

PutRecord(key, value) == [type |-> OpPut, key |-> key, value |-> value]
DeleteRecord(key) == [type |-> OpDelete, key |-> key, value |-> << >>]

\* a writeBytes that writes the length big-endian
WriteBytesBigEndian(b) == PutInt32BE(Len(b)) \o b

\* writeBytes: 4-byte little-endian length, then the bytes
WriteBytes(b) == PutUint32LE(Len(b)) \o b

\* the bytes Writer.Append hands to the bufio.Writer for one record
RecordBytes(rec) ==
    << rec.type >> \o WriteBytes(rec.key)
        \o (IF rec.type = OpPut THEN WriteBytes(rec.value) ELSE << >>)

\* Writer.Append on a writer whose bufio.Writer has sticky error state w (TRUE: failed
\* before) over a file holding bytes f.  fail: the write of this call fails in the OS.
\* A bufio.Writer that failed once returns that error from every later write and
\* writes nothing more.
WriterAppend(w, f, rec, fail) ==
    IF w THEN [wal |-> TRUE, bytes |-> f, err |-> ErrIO]
    ELSE IF fail THEN [wal |-> TRUE, bytes |-> f, err |-> ErrIO]
    ELSE [wal |-> FALSE, bytes |-> f \o RecordBytes(rec), err |-> ErrNone]

ErrEOF == "EOF"
ErrUnexpectedEOF == "unexpected EOF"

\* readBytes at position pos (1-based) of f: io.ReadFull of the length, then of the bytes
ReadBytes(f, pos) ==
    LET left == Len(f) - pos + 1
    IN  IF left <= 0 THEN [b |-> << >>, pos |-> pos, err |-> ErrEOF]
        ELSE IF left < 4 THEN [b |-> << >>, pos |-> pos, err |-> ErrUnexpectedEOF]
        ELSE Only({
                 IF n = 0 THEN [b |-> << >>, pos |-> pos + 4, err |-> ErrNone]
                 ELSE IF left - 4 = 0 THEN [b |-> << >>, pos |-> pos + 4, err |-> ErrEOF]
                 ELSE IF left - 4 < n
                      THEN [b |-> << >>, pos |-> pos + 4, err |-> ErrUnexpectedEOF]
                 ELSE [b |-> SubSeq(f, pos + 4, pos + 3 + n), pos |-> pos + 4 + n,
                       err |-> ErrNone]
                 : n \in { Uint32LE(SubSeq(f, pos, pos + 3)) } })

NoRecord == [type |-> 0, key |-> << >>, value |-> << >>]

\* the value part of Reader.Next: key k was read, the record has type t
ReaderNextValue(f, pos, t, k) ==
    IF t = OpPut
    THEN Only({ IF v.err # ErrNone
                THEN [rec |-> NoRecord, ok |-> FALSE, err |-> v.err, pos |-> pos]
                ELSE [rec |-> [type |-> t, key |-> k.b, value |-> v.b],
                      ok |-> TRUE, err |-> ErrNone, pos |-> v.pos]
                : v \in { ReadBytes(f, k.pos) } })
    ELSE [rec |-> [type |-> t, key |-> k.b, value |-> << >>],
          ok |-> TRUE, err |-> ErrNone, pos |-> k.pos]

\* Reader.Next at position pos of f
ReaderNext(f, pos) ==
    IF pos > Len(f) THEN [rec |-> NoRecord, ok |-> FALSE, err |-> ErrNone, pos |-> pos]
    ELSE Only({ IF k.err # ErrNone
                THEN [rec |-> NoRecord, ok |-> FALSE, err |-> k.err, pos |-> pos]
                ELSE ReaderNextValue(f, pos, f[pos], k)
                : k \in { ReadBytes(f, pos + 1) } })

----------------------------------------------------------------------------
(* package sstable *)

\* one entry as SSTable.WriteBlock writes it
EntryBytes(kv) ==
    PutInt32BE(Len(kv.key)) \o kv.key \o PutInt32BE(Len(kv.value)) \o kv.value

\* SSTable.WriteBlock on a file holding f
RECURSIVE WriteBlock(_, _)
WriteBlock(f, blockData) ==
    IF blockData = << >> THEN f
    ELSE Only({ WriteBlock(g, rest) : g \in { f \o EntryBytes(blockData[1]) },
                                      rest \in { Tail(blockData) } })

Zeros(n) == [i \in 1..n |-> 0]

\* os.File.Read of n bytes at pos: one read call, short at the end of the file
FileRead(f, pos, n) ==
    LET left == Len(f) - pos + 1
    IN  IF n = 0 THEN [b |-> << >>, pos |-> pos, err |-> ErrNone]
        ELSE IF left <= 0 THEN [b |-> Zeros(n), pos |-> pos, err |-> ErrEOF]
        ELSE [b |-> SubSeq(f, pos, pos + Min(n, left) - 1) \o Zeros(n - Min(n, left)),
              pos |-> pos + Min(n, left), err |-> ErrNone]

\* binary.Read of an int32 at pos
ReadInt32(f, pos) ==
    LET left == Len(f) - pos + 1
    IN  IF left <= 0 THEN [n |-> 0, pos |-> pos, err |-> ErrEOF]
        ELSE IF left < 4 THEN [n |-> 0, pos |-> pos, err |-> ErrUnexpectedEOF]
        ELSE [n |-> Int32BE(SubSeq(f, pos, pos + 3)), pos |-> pos + 4, err |-> ErrNone]

\* the loop of SSTable.readBlockFromOffset
RECURSIVE ReadBlockLoop(_, _, _)

\* ... after the key k: the value length and the value
ReadBlockValue(f, k, result) ==
    Only({
        IF vl.err # ErrNone THEN [kvs |-> << >>, err |-> vl.err]
        ELSE IF vl.n < 0 THEN [kvs |-> result, err |-> ErrNone]
        ELSE Only({ IF v.err # ErrNone THEN [kvs |-> << >>, err |-> v.err]
                    ELSE Only({ ReadBlockLoop(f, v.pos, more)
                                : more \in { Append(result, [key |-> k.b, value |-> v.b]) } })
                    : v \in { FileRead(f, vl.pos, vl.n) } })
        : vl \in { ReadInt32(f, k.pos) } })

ReadBlockLoop(f, pos, result) ==
    Only({
        IF kl.err = ErrEOF THEN [kvs |-> result, err |-> ErrNone]
        ELSE IF kl.err # ErrNone THEN [kvs |-> << >>, err |-> kl.err]
        ELSE IF kl.n <= 0 THEN [kvs |-> result, err |-> ErrNone]
        ELSE Only({ IF k.err # ErrNone THEN [kvs |-> << >>, err |-> k.err]
                    ELSE ReadBlockValue(f, k, result)
                    : k \in { FileRead(f, kl.pos, kl.n) } })
        : kl \in { ReadInt32(f, pos) } })

\* SSTable.readBlockFromOffset; startOffset is 0-based as in the code
ReadBlockFromOffset(f, startOffset) == ReadBlockLoop(f, startOffset + 1, << >>)

\* the bytes of blockData as the size loop of BuildSparseIndex counts them
RECURSIVE BlockSize(_)
BlockSize(blockData) ==
    IF blockData = << >> THEN 0
    ELSE 4 + Len(blockData[1].key) + 4 + Len(blockData[1].value) + BlockSize(Tail(blockData))

\* the loop of SSTable.BuildSparseIndex from blockOffset on
RECURSIVE BuildIndexLoop(_, _, _)
BuildIndexLoop(f, blockOffset, sparseIndex) ==
    Only({
        IF blk.err # ErrNone THEN [index |-> << >>, err |-> blk.err]
        ELSE IF Len(blk.kvs) = 0 THEN [index |-> sparseIndex, err |-> ErrNone]
        ELSE Only({ BuildIndexLoop(f, blockOffset + blockSize,
                        Append(sparseIndex, [startKey |-> blk.kvs[1].key,
                                             endKey |-> blk.kvs[Len(blk.kvs)].key,
                                             size |-> blockSize,
                                             offset |-> blockOffset]))
                    : blockSize \in { BlockSize(blk.kvs) } })
        : blk \in { ReadBlockFromOffset(f, blockOffset) } })

\* SSTable.BuildSparseIndex on the file f
BuildSparseIndex(f) == BuildIndexLoop(f, 0, << >>)

\* the search loop of binarySearchInBlock; left and right are 0-based as in the code
RECURSIVE SearchLoop(_, _, _, _)
SearchLoop(blockData, key, left, right) ==
    IF left > right THEN NilBytes
    ELSE Only({ Only({ IF cmp = 0 THEN Bytes(blockData[mid + 1].value)
                       ELSE IF cmp < 0 THEN SearchLoop(blockData, key, mid + 1, right)
                       ELSE SearchLoop(blockData, key, left, mid - 1)
                       : cmp \in { Compare(blockData[mid + 1].key, key) } })
                : mid \in { left + ((right - left) \div 2) } })

\* SSTable.binarySearchInBlock
BinarySearchInBlock(f, sp, key) ==
    Only({ IF blk.err # ErrNone THEN NilBytes
           ELSE SearchLoop(blk.kvs, key, 0, Len(blk.kvs) - 1)
           : blk \in { ReadBlockFromOffset(f, sp.offset) } })

\* SSTable.GetValue: the first index entry from i on whose range holds key
RECURSIVE GetValueFrom(_, _, _, _)
GetValueFrom(f, sparseIndexs, key, i) ==
    IF i > Len(sparseIndexs) THEN NilBytes
    ELSE IF Compare(sparseIndexs[i].startKey, key) <= 0
            /\ Compare(key, sparseIndexs[i].endKey) <= 0
         THEN BinarySearchInBlock(f, sparseIndexs[i], key)
    ELSE GetValueFrom(f, sparseIndexs, key, i + 1)

GetValue(f, sparseIndexs, key) == GetValueFrom(f, sparseIndexs, key, 1)

----------------------------------------------------------------------------
(* package bloom *)

\* the exclusive or of two n-bit numbers
RECURSIVE XorBits(_, _, _)
XorBits(a, b, n) ==
    IF n = 0 THEN 0
    ELSE (((a % 2) + (b % 2)) % 2) + 2 * XorBits(a \div 2, b \div 2, n - 1)

\* hash/fnv offset64 = 14695981039346656037 = 0xcbf29ce484222325, as the eight
\* bytes of a uint64, the least significant first
FnvOffset64 == <<37, 35, 34, 132, 228, 156, 242, 203>>

\* hash/fnv prime64 = 1099511628211 = 0x00000100000001B3, in the same form
FnvPrime64 == <<179, 1, 0, 0, 0, 1, 0, 0>>

\* column j of the product h * prime64
MulColumn(h, j) ==
    LET RECURSIVE Sum(_)
        Sum(i) == IF i = 0 THEN 0 ELSE h[i] * FnvPrime64[j - i + 1] + Sum(i - 1)
    IN  Sum(j)

\* h * prime64 modulo 2^64, column by column from byte j on
RECURSIVE MulPrimeFrom(_, _, _)
MulPrimeFrom(h, j, carry) ==
    IF j > Len(h) THEN << >>
    ELSE Only({ << c % 256 >> \o MulPrimeFrom(h, j + 1, c \div 256)
                : c \in { MulColumn(h, j) + carry } })

\* fnv sum64a.Write: hash ^= c; hash *= prime64, for every byte c from position i on
RECURSIVE FnvWrite(_, _, _)
FnvWrite(h, b, i) ==
    IF i > Len(b) THEN h
    ELSE Only({ FnvWrite(MulPrimeFrom(x, 1, 0), b, i + 1)
                : x \in { [h EXCEPT ![1] = XorBits(h[1], b[i], 8)] } })

\* Reset, Write(b), Sum64
Fnv64a(b) == FnvWrite(FnvOffset64, b, 1)

\* h % size for a uint64 h, from the most significant byte down
RECURSIVE ModFrom(_, _, _, _)
ModFrom(h, size, j, r) ==
    IF j = 0 THEN r ELSE ModFrom(h, size, j - 1, (r * 256 + h[j]) % size)

\* index := b.Sum64() % uint64(f.size)
BloomIndex(size, key) ==
    Only({ ModFrom(h, size, Len(h), 0) : h \in { Fnv64a(key) } })

\* bloom.New(size, hashesc): every slot of hashes holds fnv.New64a()
BloomNew(size, hashesc) ==
    [bitSet |-> [i \in 0..(size - 1) |-> FALSE], size |-> size, hashes |-> hashesc]

\* an Add that sets the bit after the computed one
RECURSIVE FilterAddNextBit(_, _, _)
FilterAddNextBit(f, key, i) ==
    IF i > f.hashes THEN f
    ELSE FilterAddNextBit(
            [f EXCEPT !.bitSet[(BloomIndex(f.size, key) + 1) % f.size] = TRUE], key, i + 1)

\* Filter.Add: the loop over f.hashes from slot i on
RECURSIVE FilterAdd(_, _, _)
FilterAdd(f, key, i) ==
    IF i > f.hashes THEN f
    ELSE FilterAdd([f EXCEPT !.bitSet[BloomIndex(f.size, key)] = TRUE], key, i + 1)

\* Filter.MayContain: the loop over f.hashes from slot i on, false at the first unset bit
RECURSIVE FilterMayContain(_, _, _)
FilterMayContain(f, key, i) ==
    IF i > f.hashes THEN TRUE
    ELSE IF ~f.bitSet[BloomIndex(f.size, key)] THEN FALSE
    ELSE FilterMayContain(f, key, i + 1)

\* the bit indexes the hash slots compute for key
BloomIndexes(f, key) == { BloomIndex(f.size, key) : i \in 1..f.hashes }

----------------------------------------------------------------------------
(* package lsm: the engine.  The operators below work on a record e holding   *)
(* the Engine fields and the files of Options.Dir.                            *)

\* I/O failures the environment may inject into one call (at most one per call)
Faults == {"none", "wal", "create", "write", "trunc", "open"}
NoFaults == {"none"}

NoFlush == "no flush"

\* the number of complete records in a WAL file, as Reader.Next delivers them
RECURSIVE WalCount(_, _)
WalCount(f, pos) ==
    Only({ IF r.ok THEN 1 + WalCount(f, r.pos) ELSE 0 : r \in { ReaderNext(f, pos) } })

\* one pass of the replay loop of Open: record rec is applied to the memtable sl
ReplayRecord(sl, rec, lvl) ==
    IF rec.type = OpPut
    THEN Heap(SkipListPut(sl, rec.key, rec.value, lvl))
    ELSE Heap(SkipListDelete(sl, rec.key).sl)

\* the replay loop of Open on a WAL file f read from position pos, the memtable being
\* sl; lvls are the levels the memtable's RNG draws
RECURSIVE Replay(_, _, _, _)
Replay(sl, f, pos, lvls) ==
    Only({ IF ~r.ok THEN sl
           ELSE Only({ Replay(next, f, r.pos, rest)
                       : next \in { ReplayRecord(sl, r.rec, lvls[1]) },
                         rest \in { Tail(lvls) } })
           : r \in { ReaderNext(f, pos) } })

\* Open on the directory holding walFile and sstFiles
Open(dir, threshold, lvls, fault) ==
    IF fault = "open"
    THEN [ok |-> FALSE, err |-> ErrIO, e |-> dir]
    ELSE [ok |-> TRUE, err |-> ErrNone,
          e |-> [options  |-> threshold,
                 memtable |-> IF dir.walFile.exists
                              THEN Replay(New, dir.walFile.bytes, 1, lvls)
                              ELSE New,
                 wal      |-> FALSE,
                 sstCount |-> 0,
                 memSize  |-> 0,
                 walFile  |-> [exists |-> TRUE, bytes |-> dir.walFile.bytes],
                 sstFiles |-> dir.sstFiles]]

\* Engine.Get
Get(e, key) == SkipListGet(e.memtable, key)

\* sstable.Writer.WriteFromSkipList: an ordered scan of the memtable written as one
\* block.  created = FALSE: os.Create failed and the writer holds a nil file.
WriteFromSkipList(created, sl, fault) ==
    IF ~created THEN [bytes |-> << >>, err |-> ErrInvalid]
    ELSE IF fault = "write" THEN [bytes |-> << >>, err |-> ErrWrite]
    ELSE [bytes |-> WriteBlock(<< >>, Scan(sl, NilBytes, NilBytes)), err |-> ErrNone]

\* the files of the directory after os.Create and the writer's writes
Created(files, n, created, bytes) ==
    IF created
    THEN [m \in DOMAIN files \cup {n} |-> IF m = n THEN bytes ELSE files[m]]
    ELSE files

\* a Flush that leaves wal.log as it is
FlushKeepsWal(e0, fault) ==
    Only({ Only({
        IF wr.err # ErrNone
        THEN [e |-> [e EXCEPT !.sstCount = @ + 1,
                              !.sstFiles = Created(@, e.sstCount + 1,
                                                   fault # "create", wr.bytes)],
              err |-> wr.err]
        ELSE [e |-> [e EXCEPT !.sstCount = @ + 1,
                              !.sstFiles = Created(@, e.sstCount + 1, TRUE, wr.bytes),
                              !.memtable = New],
              err |-> IF fault = "trunc" THEN ErrTruncate ELSE ErrNone]
        : wr \in { WriteFromSkipList(fault # "create", e.memtable, fault) } })
      : e \in { e0 } })

\* Engine.Flush
Flush(e0, fault) ==
    Only({ Only({
        IF wr.err # ErrNone
        THEN [e |-> [e EXCEPT !.sstCount = @ + 1,
                              !.sstFiles = Created(@, e.sstCount + 1,
                                                   fault # "create", wr.bytes)],
              err |-> wr.err]
        ELSE IF fault = "trunc"
        THEN [e |-> [e EXCEPT !.sstCount = @ + 1,
                              !.sstFiles = Created(@, e.sstCount + 1, TRUE, wr.bytes),
                              !.memtable = New],
              err |-> ErrTruncate]
        ELSE [e |-> [e EXCEPT !.sstCount = @ + 1,
                              !.sstFiles = Created(@, e.sstCount + 1, TRUE, wr.bytes),
                              !.memtable = New,
                              !.walFile.bytes = << >>],
              err |-> ErrNone]
        : wr \in { WriteFromSkipList(fault # "create", e.memtable, fault) } })
      : e \in { e0 } })

\* the end of Engine.Put: the threshold check after the WAL append a and the
\* memtable update gave the engine e1
PutThreshold(e1, a, fault) ==
    IF e1.options > 0 /\ e1.memSize >= e1.options
    THEN Only({ [e |-> [fl.e EXCEPT !.memSize = 0], err |-> ErrNone,
                 appendErr |-> a.err, flushErr |-> fl.err]
                : fl \in { Flush(e1, fault) } })
    ELSE [e |-> e1, err |-> ErrNone, appendErr |-> a.err, flushErr |-> NoFlush]

\* Engine.Put
Put(e0, key, value, lvl, fault) ==
    Only({ Only({ Only({ PutThreshold(e1, a, fault)
        : e1 \in { [e EXCEPT !.wal = a.wal, !.walFile.bytes = a.bytes,
                             !.memSize = @ + Len(key) + Len(value),
                             !.memtable = Heap(SkipListPut(@, key, value, lvl))] } })
        : a \in { WriterAppend(e.wal, e.walFile.bytes, PutRecord(key, value),
                               fault = "wal") } })
      : e \in { e0 } })

\* Engine.Delete
Delete(e0, key, fault) ==
    Only({ Only({
        [e |-> [e EXCEPT !.wal = a.wal, !.walFile.bytes = a.bytes,
                         !.memtable = Heap(d.sl)],
         err |-> d.err, appendErr |-> a.err, flushErr |-> NoFlush]
        : a \in { WriterAppend(e.wal, e.walFile.bytes, DeleteRecord(key), fault = "wal") },
          d \in { SkipListDelete(e.memtable, key) } })
      : e \in { e0 } })

\* Engine.Close
Close(e0, fault) ==
    Only({ [e |-> fl.e, err |-> ErrNone, appendErr |-> ErrNone, flushErr |-> fl.err]
           : fl \in { Flush(e0, fault) } })

----------------------------------------------------------------------------
(* The state machine of one caller *)

Engine ==
    [options |-> options, memtable |-> memtable, wal |-> wal, sstCount |-> sstCount,
     memSize |-> memSize, walFile |-> walFile, sstFiles |-> sstFiles]

Dir == [walFile |-> walFile, sstFiles |-> sstFiles]

EmptyMap == << >>

\* the key -> value map a skip list holds
Contents(sl) ==
    Only({ [k \in { kvs[i].key : i \in 1..Len(kvs) } |->
               kvs[CHOOSE i \in 1..Len(kvs) : kvs[i].key = k].value]
           : kvs \in { Scan(sl, NilBytes, NilBytes) } })

\* what Get returns for key k when the store holds map m
RefGet(m, k) ==
    IF k \in DOMAIN m THEN [value |-> m[k], err |-> ErrNone]
    ELSE [value |-> << >>, err |-> ErrNotFound]

\* the pairs of table file f, as readBlockFromOffset decodes them
TablePairs(f) == ReadBlockFromOffset(f, 0).kvs
MapPut(m, k, v) == [x \in DOMAIN m \cup {k} |-> IF x = k THEN v ELSE m[x]]
MapDelete(m, k) == [x \in DOMAIN m \ {k} |-> m[x]]

\* the engine fields become those of e
SetEngine(e) ==
    /\ options' = e.options
    /\ memtable' = e.memtable
    /\ wal' = e.wal
    /\ sstCount' = e.sstCount
    /\ memSize' = e.memSize
    /\ walFile' = e.walFile
    /\ sstFiles' = e.sstFiles

\* the process holds no engine: the handle is gone, the files stay
DropEngine(dir) ==
    /\ options' = 0
    /\ memtable' = New
    /\ wal' = FALSE
    /\ sstCount' = 0
    /\ memSize' = 0
    /\ walFile' = dir.walFile
    /\ sstFiles' = dir.sstFiles

Result(op, err, appendErr, flushErr) ==
    [op |-> op, err |-> err, appendErr |-> appendErr, flushErr |-> flushErr]

Init ==
    /\ phase = "down"
    /\ options = 0
    /\ memtable = New
    /\ wal = FALSE
    /\ sstCount = 0
    /\ memSize = 0
    /\ walFile = [exists |-> FALSE, bytes |-> << >>]
    /\ sstFiles = << >>
    /\ ret = Result("init", ErrNone, ErrNone, NoFlush)
    /\ ref = EmptyMap
    /\ pending = EmptyMap
    /\ pc = << >>
    /\ local = << >>

\* the faults that can strike a call that runs Flush / that does not
FlushFaults == {"none", "create", "write", "trunc"}
AppendFaults == {"none", "wal"}

\* Put runs Flush when the threshold is set and reached
PutFlushes(k, v) == options > 0 /\ memSize + Len(k) + Len(v) >= options

\* observed: the reference map follows the accepted calls
DoOpen(thresholds, faults) ==
    /\ phase = "down"
    /\ \E t \in thresholds, f \in faults \cap {"none", "open"},
          lvls \in [1..WalCount(walFile.bytes, 1) -> Levels] :
          \E r \in { Open(Dir, t, lvls, f) } :
              /\ IF r.ok THEN phase' = "open" /\ SetEngine(r.e)
                         ELSE phase' = "down" /\ DropEngine(r.e)
              /\ ret' = Result("Open", r.err, ErrNone, NoFlush)
    /\ UNCHANGED <<ref, pending, pc, local>>

DoPut(faults, observed, recs) ==
    /\ phase = "open"
    /\ WalCount(walFile.bytes, 1) < recs
    /\ memSize < 2 * MaxPuts
    /\ \E k \in Keys, v \in Values, lvl \in Levels :
       \E f \in faults \cap (IF PutFlushes(k, v) THEN AppendFaults \cup FlushFaults
                             ELSE AppendFaults) :
          \E r \in { Put(Engine, k, v, lvl, f) } :
              /\ r.e.sstCount <= MaxSst
              /\ SetEngine(r.e)
              /\ ret' = Result("Put", r.err, r.appendErr, r.flushErr)
              /\ ref' = IF observed THEN MapPut(ref, k, v) ELSE ref
              /\ pending' = IF r.flushErr = ErrNone THEN EmptyMap
                            ELSE MapPut(pending, k, v)
    /\ UNCHANGED <<phase, pc, local>>

DoDelete(faults, observed, recs) ==
    /\ phase = "open"
    /\ WalCount(walFile.bytes, 1) < recs
    /\ \E k \in Keys, f \in faults \cap AppendFaults :
          \E r \in { Delete(Engine, k, f) } :
              /\ SetEngine(r.e)
              /\ ret' = Result("Delete", r.err, r.appendErr, r.flushErr)
              /\ ref' = IF observed THEN MapDelete(ref, k) ELSE ref
              /\ pending' = MapDelete(pending, k)
    /\ UNCHANGED <<phase, pc, local>>

DoFlush(faults) ==
    /\ phase = "open"
    /\ sstCount < MaxSst
    /\ \E f \in faults \cap FlushFaults :
          \E r \in { Flush(Engine, f) } :
              /\ SetEngine(r.e)
              /\ ret' = Result("Flush", r.err, ErrNone, r.err)
              /\ pending' = IF r.err = ErrNone THEN EmptyMap ELSE pending
    /\ UNCHANGED <<phase, ref, pc, local>>

DoClose(faults) ==
    /\ phase = "open"
    /\ sstCount < MaxSst
    /\ \E f \in faults \cap FlushFaults :
          \E r \in { Close(Engine, f) } :
              /\ DropEngine(r.e)
              /\ ret' = Result("Close", r.err, ErrNone, r.flushErr)
              /\ pending' = IF r.flushErr = ErrNone THEN EmptyMap ELSE pending
    /\ phase' = "down"
    /\ UNCHANGED <<ref, pc, local>>

\* the process stops without Close
Crash ==
    /\ phase = "open"
    /\ phase' = "down"
    /\ DropEngine(Dir)
    /\ ret' = Result("Crash", ErrNone, ErrNone, NoFlush)
    /\ UNCHANGED <<ref, pending, pc, local>>

\* every engine call of one caller; the I/O never fails
Next ==
    \/ DoOpen(Thresholds, NoFaults)
    \/ DoPut(NoFaults, FALSE, MaxWalRecsWide)
    \/ DoDelete(NoFaults, FALSE, MaxWalRecsWide)
    \/ DoFlush(NoFaults)
    \/ DoClose(NoFaults)
    \/ Crash

Spec == Init /\ [][Next]_vars

\* one engine lifetime with flushes; the I/O never fails
NextFlush ==
    \/ DoOpen(Thresholds, NoFaults)
    \/ DoPut(NoFaults, FALSE, MaxWalRecsWide)
    \/ DoDelete(NoFaults, FALSE, MaxWalRecsWide)
    \/ DoFlush(NoFaults)

SpecFlush == Init /\ [][NextFlush]_vars

\* Put and Delete only, against the reference map
NextPutDelete ==
    \/ DoOpen(Thresholds, NoFaults)
    \/ DoPut(NoFaults, TRUE, MaxWalRecs)
    \/ DoDelete(NoFaults, TRUE, MaxWalRecs)

SpecPutDelete == Init /\ [][NextPutDelete]_vars

\* Put, Delete, Close and Open again, no threshold
NextReopen ==
    \/ DoOpen({0}, NoFaults)
    \/ DoPut(NoFaults, TRUE, MaxWalRecs)
    \/ DoDelete(NoFaults, TRUE, MaxWalRecs)
    \/ DoClose(NoFaults)

SpecReopen == Init /\ [][NextReopen]_vars

\* the WAL write may fail; the process may stop
NextWalFault ==
    \/ DoOpen({0}, NoFaults)
    \/ DoPut(AppendFaults, FALSE, MaxWalRecsWide)
    \/ DoDelete(AppendFaults, FALSE, MaxWalRecsWide)
    \/ Crash

SpecWalFault == Init /\ [][NextWalFault]_vars

\* creating or writing the table file, or truncating the WAL, may fail
NextFlushFault ==
    \/ DoOpen(Thresholds, NoFaults)
    \/ DoPut(FlushFaults, FALSE, MaxWalRecsWide)
    \/ DoDelete(NoFaults, FALSE, MaxWalRecsWide)
    \/ DoFlush(FlushFaults)
    \/ DoClose(FlushFaults)

SpecFlushFault == Init /\ [][NextFlushFault]_vars

----------------------------------------------------------------------------
(* Concurrent callers.  Engine has no lock: each goroutine runs its call statement  *)
(* by statement, and the statements of different goroutines interleave.             *)

Goroutines == 1..NumGoroutines

\* the values concurrent callers write; the property below is about keys only
ConcValues == {<<1>>}

NoCall == [op |-> "none", key |-> << >>, value |-> << >>, n |-> 0]

\* goroutines inside a call
Running == { g \in Goroutines : pc[g] # "idle" }

\* the Put records of a WAL file from position pos on, as Reader.Next delivers them
RECURSIVE WalPutKeys(_, _)
WalPutKeys(f, pos) ==
    Only({ IF ~r.ok THEN {}
           ELSE (IF r.rec.type = OpPut THEN {r.rec.key} ELSE {}) \cup WalPutKeys(f, r.pos)
           : r \in { ReaderNext(f, pos) } })

\* a write of bytes b at offset 0 through a fresh handle of a file holding f
WriteAtStart(f, b) == b \o SubSeq(f, Len(b) + 1, Len(f))

\* an engine opened on an empty directory, no call running
InitConc ==
    /\ phase = "open"
    /\ options \in Thresholds
    /\ memtable = New
    /\ wal = FALSE
    /\ sstCount = 0
    /\ memSize = 0
    /\ walFile = [exists |-> TRUE, bytes |-> << >>]
    /\ sstFiles = << >>
    /\ ret = Result("Open", ErrNone, ErrNone, NoFlush)
    /\ ref = EmptyMap
    /\ pending = EmptyMap
    /\ pc = [g \in Goroutines |-> "idle"]
    /\ local = [g \in Goroutines |-> NoCall]

\* goroutine g calls Put(k, v)
CallPut(g) ==
    /\ pc[g] = "idle"
    /\ WalCount(walFile.bytes, 1) < MaxWalRecsWide
    /\ memSize < 2 * MaxPuts
    /\ options > 0 => sstCount + Cardinality(Running) < MaxSst
    /\ \E k \in Keys, v \in ConcValues :
          local' = [local EXCEPT ![g] = [op |-> "Put", key |-> k, value |-> v, n |-> 0]]
    /\ pc' = [pc EXCEPT ![g] = "put_append"]
    /\ UNCHANGED <<phase, options, memtable, wal, sstCount, memSize, walFile, sstFiles,
                   ret, ref, pending>>

\* Put: e.wal.Append
PutAppend(g) ==
    /\ pc[g] = "put_append"
    /\ \E a \in { WriterAppend(wal, walFile.bytes,
                               PutRecord(local[g].key, local[g].value), FALSE) } :
          /\ wal' = a.wal
          /\ walFile' = [walFile EXCEPT !.bytes = a.bytes]
    /\ pc' = [pc EXCEPT ![g] = "put_size"]
    /\ UNCHANGED <<phase, options, memtable, sstCount, memSize, sstFiles, ret, ref,
                   pending, local>>

\* Put: e.memSize += len(key) + len(value)
PutSize(g) ==
    /\ pc[g] = "put_size"
    /\ memSize' = memSize + Len(local[g].key) + Len(local[g].value)
    /\ pc' = [pc EXCEPT ![g] = "put_mem"]
    /\ UNCHANGED <<phase, options, memtable, wal, sstCount, walFile, sstFiles, ret, ref,
                   pending, local>>

\* Put: e.memtable.Put
PutMem(g) ==
    /\ pc[g] = "put_mem"
    /\ \E lvl \in Levels :
          memtable' = Heap(SkipListPut(memtable, local[g].key, local[g].value, lvl))
    /\ pc' = [pc EXCEPT ![g] = "put_check"]
    /\ UNCHANGED <<phase, options, wal, sstCount, memSize, walFile, sstFiles, ret, ref,
                   pending, local>>

\* goroutine g returns from Put
ReturnPut(g) ==
    /\ pc' = [pc EXCEPT ![g] = "idle"]
    /\ local' = [local EXCEPT ![g] = NoCall]
    /\ ret' = Result("Put", ErrNone, ErrNone, NoFlush)
    /\ ref' = MapPut(ref, local[g].key, local[g].value)

\* Put: the threshold check; below the threshold the call returns
PutCheck(g) ==
    /\ pc[g] = "put_check"
    /\ IF options > 0 /\ memSize >= options
       THEN /\ pc' = [pc EXCEPT ![g] = "flush_count"]
            /\ UNCHANGED <<ret, ref, local>>
       ELSE ReturnPut(g)
    /\ UNCHANGED <<phase, options, memtable, wal, sstCount, memSize, walFile, sstFiles,
                   pending>>

\* Put: e.memSize = 0 after the flush, and the return
PutReset(g) ==
    /\ pc[g] = "put_reset"
    /\ memSize' = 0
    /\ ReturnPut(g)
    /\ UNCHANGED <<phase, options, memtable, wal, sstCount, walFile, sstFiles, pending>>

\* goroutine g calls Flush
CallFlush(g) ==
    /\ pc[g] = "idle"
    /\ sstCount + Cardinality(Running) < MaxSst
    /\ local' = [local EXCEPT ![g] = [NoCall EXCEPT !.op = "Flush"]]
    /\ pc' = [pc EXCEPT ![g] = "flush_count"]
    /\ UNCHANGED <<phase, options, memtable, wal, sstCount, memSize, walFile, sstFiles,
                   ret, ref, pending>>

\* Flush: e.sstCount++
FlushCount(g) ==
    /\ pc[g] = "flush_count"
    /\ sstCount' = sstCount + 1
    /\ pc' = [pc EXCEPT ![g] = "flush_create"]
    /\ UNCHANGED <<phase, options, memtable, wal, memSize, walFile, sstFiles, ret, ref,
                   pending, local>>

\* Flush: the path from e.sstCount, and os.Create
FlushCreate(g) ==
    /\ pc[g] = "flush_create"
    /\ local' = [local EXCEPT ![g].n = sstCount]
    /\ sstFiles' = Created(sstFiles, sstCount, TRUE, << >>)
    /\ pc' = [pc EXCEPT ![g] = "flush_write"]
    /\ UNCHANGED <<phase, options, memtable, wal, sstCount, memSize, walFile, ret, ref,
                   pending>>

\* Flush: writer.WriteFromSkipList(e.memtable)
FlushWrite(g) ==
    /\ pc[g] = "flush_write"
    /\ \E wr \in { WriteFromSkipList(TRUE, memtable, "none") } :
          sstFiles' = [sstFiles EXCEPT ![local[g].n] = WriteAtStart(@, wr.bytes)]
    /\ pc' = [pc EXCEPT ![g] = "flush_swap"]
    /\ UNCHANGED <<phase, options, memtable, wal, sstCount, memSize, walFile, ret, ref,
                   pending, local>>

\* Flush: e.memtable = skiplist.New(1)
FlushSwap(g) ==
    /\ pc[g] = "flush_swap"
    /\ memtable' = New
    /\ pc' = [pc EXCEPT ![g] = "flush_truncate"]
    /\ UNCHANGED <<phase, options, wal, sstCount, memSize, walFile, sstFiles, ret, ref,
                   pending, local>>

\* Flush: e.walFile.Truncate(0), and the return to the caller or into Put
FlushTruncate(g) ==
    /\ pc[g] = "flush_truncate"
    /\ walFile' = [walFile EXCEPT !.bytes = << >>]
    /\ IF local[g].op = "Put"
       THEN /\ pc' = [pc EXCEPT ![g] = "put_reset"]
            /\ UNCHANGED <<ret, local>>
       ELSE /\ pc' = [pc EXCEPT ![g] = "idle"]
            /\ local' = [local EXCEPT ![g] = NoCall]
            /\ ret' = Result("Flush", ErrNone, ErrNone, ErrNone)
    /\ UNCHANGED <<phase, options, memtable, wal, sstCount, memSize, sstFiles, ref,
                   pending>>

NextConc ==
    \E g \in Goroutines :
        \/ CallPut(g)
        \/ PutAppend(g)
        \/ PutSize(g)
        \/ PutMem(g)
        \/ PutCheck(g)
        \/ PutReset(g)
        \/ CallFlush(g)
        \/ FlushCount(g)
        \/ FlushCreate(g)
        \/ FlushWrite(g)
        \/ FlushSwap(g)
        \/ FlushTruncate(g)

SpecConc == InitConc /\ [][NextConc]_vars

----------------------------------------------------------------------------
(* The leaf packages on their own.  The variables of the engine that a leaf    *)
(* scenario does not use stay as LeafInit sets them; pc is the position of the *)
(* calling code and local holds what it has passed in so far.                  *)

LeafInit ==
    /\ phase = "leaf"
    /\ options = 0
    /\ wal = FALSE
    /\ sstCount = 0
    /\ memSize = 0
    /\ ret = Result("init", ErrNone, ErrNone, NoFlush)
    /\ ref = EmptyMap
    /\ pending = EmptyMap

(* package wal: a writer and a reader over one file *)

WalKeys == {<< >>, <<97>>, <<97, 98>>}
WalValues == {<< >>, <<1>>}

\* the records a caller may append; a Delete record may carry a value, which
\* Append does not write
WalRecords == [type : {OpPut, OpDelete}, key : WalKeys, value : WalValues]

\* the record as the reader delivers it
Delivered(rec) == IF rec.type = OpPut THEN rec ELSE [rec EXCEPT !.value = << >>]

\* Reader.Next called until ok = false: the records delivered and the last error
RECURSIVE ReadAllFrom(_, _, _)
ReadAllFrom(f, pos, acc) ==
    Only({ IF r.ok THEN ReadAllFrom(f, r.pos, Append(acc, r.rec))
           ELSE [recs |-> acc, err |-> r.err]
           : r \in { ReaderNext(f, pos) } })

ReadAll(f) == ReadAllFrom(f, 1, << >>)

InitWalLog ==
    /\ LeafInit
    /\ memtable = New
    /\ walFile = [exists |-> TRUE, bytes |-> << >>]
    /\ sstFiles = << >>
    /\ pc = "appending"
    /\ local = << >>

\* Writer.Append of one more record
WalAppend ==
    /\ pc = "appending"
    /\ Len(local) < MaxWalRecs
    /\ \E rec \in WalRecords :
       \E a \in { WriterAppend(wal, walFile.bytes, rec, FALSE) } :
          /\ walFile' = [walFile EXCEPT !.bytes = a.bytes]
          /\ wal' = a.wal
          /\ local' = Append(local, rec)
    /\ UNCHANGED <<phase, options, memtable, sstCount, memSize, sstFiles, ret, ref,
                   pending, pc>>

\* the process stops inside the write of the last record: the file ends after at
\* least one and not all of that record's bytes
WalTear ==
    /\ pc = "appending"
    /\ Len(local) >= 1
    /\ \E n \in (Len(walFile.bytes) - Len(RecordBytes(local[Len(local)])) + 1)
                ..(Len(walFile.bytes) - 1) :
          walFile' = [walFile EXCEPT !.bytes = SubSeq(@, 1, n)]
    /\ pc' = "torn"
    /\ UNCHANGED <<phase, options, memtable, wal, sstCount, memSize, sstFiles, ret, ref,
                   pending, local>>

\* records are appended and read back
NextWalLog == WalAppend

SpecWalLog == InitWalLog /\ [][NextWalLog]_vars

\* records are appended and the last write is cut short
NextWalTorn ==
    \/ WalAppend
    \/ WalTear

SpecWalTorn == InitWalLog /\ [][NextWalTorn]_vars

(* package sstable: one table file, written block by block, indexed, then read *)

SstKeys == {<< >>, <<97>>, <<98>>}
SstValues == {<< >>, <<1>>}

\* the keys of K in ascending order
RECURSIVE SortedKeys(_)
SortedKeys(K) ==
    IF K = {} THEN << >>
    ELSE Only({ << k >> \o SortedKeys(K \ {k})
                : k \in { CHOOSE k \in K : \A o \in K : Compare(k, o) <= 0 } })

\* the blocks a caller passes to WriteBlock: pairs sorted ascending by key
SstBlocks ==
    UNION { { [i \in 1..Len(ks) |-> [key |-> ks[i], value |-> vs[i]]]
              : vs \in [1..Len(ks) -> SstValues] }
            : ks \in { SortedKeys(K) : K \in SUBSET SstKeys } }

\* the pairs of all blocks written, in file order
RECURSIVE Concat(_)
Concat(blocks) == IF blocks = << >> THEN << >> ELSE blocks[1] \o Concat(Tail(blocks))

\* the value the pairs kvs hold for key, nil when they hold none
PairsGet(kvs, key) ==
    IF \E i \in 1..Len(kvs) : kvs[i].key = key
    THEN Bytes(kvs[CHOOSE i \in 1..Len(kvs) : kvs[i].key = key].value)
    ELSE NilBytes

\* no pair written so far has the empty key
SstNoEmptyKey ==
    \A i \in 1..Len(local.blocks) :
        \A j \in 1..Len(local.blocks[i]) : local.blocks[i][j].key # << >>

\* local holds the file, the blocks passed to WriteBlock and the sparse index
InitSst ==
    /\ LeafInit
    /\ memtable = New
    /\ walFile = [exists |-> FALSE, bytes |-> << >>]
    /\ sstFiles = << >>
    /\ pc = "writing"
    /\ local = [file |-> << >>, blocks |-> << >>, sparseIndexs |-> << >>]

\* SSTable.WriteBlock(blockData); the keys continue ascending after the blocks before
SstWriteBlock ==
    /\ pc = "writing"
    /\ Len(local.blocks) < MaxBlocks
    /\ \E blockData \in SstBlocks :
          /\ \A before \in { Concat(local.blocks) } :
                (before # << >> /\ blockData # << >>)
                   => Compare(before[Len(before)].key, blockData[1].key) < 0
          /\ local' = [local EXCEPT !.file = WriteBlock(local.file, blockData),
                                    !.blocks = Append(local.blocks, blockData)]
    /\ ret' = [op |-> "WriteBlock", key |-> << >>, value |-> NilBytes, err |-> ErrNone]
    /\ UNCHANGED <<phase, options, memtable, wal, sstCount, memSize, walFile, sstFiles,
                   ref, pending, pc>>

\* SSTable.BuildSparseIndex()
SstBuildSparseIndex ==
    /\ pc = "writing"
    /\ \E r \in { BuildSparseIndex(local.file) } :
          /\ local' = [local EXCEPT !.sparseIndexs =
                          IF r.err = ErrNone THEN r.index ELSE local.sparseIndexs]
          /\ ret' = [op |-> "BuildSparseIndex", key |-> << >>, value |-> NilBytes,
                     err |-> r.err]
    /\ pc' = "indexed"
    /\ UNCHANGED <<phase, options, memtable, wal, sstCount, memSize, walFile, sstFiles,
                   ref, pending>>

\* SSTable.GetValue(key)
SstGetValue ==
    /\ pc = "indexed"
    /\ \E key \in SstKeys :
          ret' = [op |-> "GetValue", key |-> key,
                  value |-> GetValue(local.file, local.sparseIndexs, key), err |-> ErrNone]
    /\ UNCHANGED <<phase, options, memtable, wal, sstCount, memSize, walFile, sstFiles,
                   ref, pending, pc, local>>

NextSst ==
    \/ SstWriteBlock
    \/ SstBuildSparseIndex
    \/ SstGetValue

SpecSst == InitSst /\ [][NextSst]_vars

(* package bloom: one filter, the caller adds and asks *)

BloomKeys == {<< >>, <<97>>, <<98>>, <<97, 98>>, <<98, 97>>}

\* local holds the filter and the keys added so far
InitBloom ==
    /\ LeafInit
    /\ memtable = New
    /\ walFile = [exists |-> FALSE, bytes |-> << >>]
    /\ sstFiles = << >>
    /\ pc = "filter"
    /\ \E size \in 1..MaxBloomSize, hashesc \in 0..MaxHashes :
          local = [f |-> BloomNew(size, hashesc), added |-> {}]

\* Filter.Add(k)
BloomAdd ==
    /\ \E k \in BloomKeys :
          /\ local' = [f |-> FilterAdd(local.f, k, 1), added |-> local.added \cup {k}]
          /\ ret' = [op |-> "Add", key |-> k, ok |-> TRUE, err |-> ErrNone]
    /\ UNCHANGED <<phase, options, memtable, wal, sstCount, memSize, walFile, sstFiles,
                   ref, pending, pc>>

\* Filter.MayContain(k)
BloomMayContain ==
    /\ \E k \in BloomKeys :
          ret' = [op |-> "MayContain", key |-> k,
                  ok |-> FilterMayContain(local.f, k, 1), err |-> ErrNone]
    /\ UNCHANGED <<phase, options, memtable, wal, sstCount, memSize, walFile, sstFiles,
                   ref, pending, pc, local>>

NextBloom ==
    \/ BloomAdd
    \/ BloomMayContain

SpecBloom == InitBloom /\ [][NextBloom]_vars

(* package skiplist: one list, the caller puts and deletes *)

SlKeys == {<< >>, <<97>>, <<97, 98>>, <<98>>}

\* the bounds a caller passes to Scan: nil, the empty slice, a key
ScanBounds == {NilBytes} \cup { Bytes(k) : k \in SlKeys }

\* the nodes the level-i links visit from node cur on
RECURSIVE LevelChain(_, _, _)
LevelChain(sl, cur, i) ==
    IF cur = NIL THEN << >>
    ELSE Only({ << cur >> \o LevelChain(sl, nx, i) : nx \in { sl[cur].next[i] } })

\* the nodes linked at level i, the head not counted
LevelNodes(sl, i) == LevelChain(sl, sl[HeadNode].next[i], i)

\* the keys of a sequence of pairs
PairKeys(kvs) == [i \in 1..Len(kvs) |-> kvs[i].key]

InitSkipList ==
    /\ LeafInit
    /\ memtable = New
    /\ walFile = [exists |-> FALSE, bytes |-> << >>]
    /\ sstFiles = << >>
    /\ pc = "list"
    /\ local = [key |-> << >>]

\* SkipList.Put(k, v)
SlPut ==
    /\ \E k \in SlKeys, v \in Values, lvl \in Levels :
          /\ memtable' = Heap(SkipListPut(memtable, k, v, lvl))
          /\ ref' = MapPut(ref, k, v)
          /\ local' = [key |-> k]
    /\ ret' = Result("Put", ErrNone, ErrNone, NoFlush)
    /\ UNCHANGED <<phase, options, wal, sstCount, memSize, walFile, sstFiles, pending, pc>>

\* SkipList.Delete(k)
SlDelete ==
    /\ \E k \in SlKeys :
       \E d \in { SkipListDelete(memtable, k) } :
          /\ memtable' = Heap(d.sl)
          /\ ret' = Result("Delete", d.err, ErrNone, NoFlush)
          /\ ref' = MapDelete(ref, k)
          /\ local' = [key |-> k]
    /\ UNCHANGED <<phase, options, wal, sstCount, memSize, walFile, sstFiles, pending, pc>>

NextSkipList ==
    \/ SlPut
    \/ SlDelete

SpecSkipList == InitSkipList /\ [][NextSkipList]_vars

----------------------------------------------------------------------------
(* Properties *)

\* C1: on an open engine, after any sequence of Put and Delete calls (threshold
\* flushes included), Get(k) returns for every key k what the reference map holds.
C1_GetMatchesReference ==
    phase = "open" => \A k \in Keys : Get(Engine, k) = RefGet(ref, k)

\* C2: a key that was Put and then moved to a table file by Flush is still returned
\* by Get with its value: right after a successful Flush every pair of the newest
\* table is what Get returns.
C2_FlushedKeyReturned ==
    (phase = "open" /\ ret.op = "Flush" /\ ret.err = ErrNone
        /\ sstCount \in DOMAIN sstFiles)
    => \A i \in 1..Len(TablePairs(sstFiles[sstCount])) :
          Get(Engine, TablePairs(sstFiles[sstCount])[i].key)
              = [value |-> TablePairs(sstFiles[sstCount])[i].value, err |-> ErrNone]

\* C3: when the WAL append inside Put or Delete fails, the call returns that failure
\* and leaves the memtable and the flush byte counter as they were.
C3_WalFailureAborts ==
    [][(ret'.op \in {"Put", "Delete"} /\ ret'.appendErr # ErrNone)
        => /\ ret'.err = ret'.appendErr
           /\ memtable' = memtable
           /\ memSize' = memSize]_vars

\* C4: when the process stops without Close and Open runs on the same directory, the
\* new memtable holds the net effect of the Put/Delete calls made since the last
\* flush.
C4_CrashRecovery ==
    [][(ret.op = "Crash" /\ ret'.op = "Open" /\ ret'.err = ErrNone)
        => Contents(memtable') = pending]_vars

\* C5: after Put and Delete calls with no flush, Close followed by Open yields a
\* memtable holding exactly the net effect of those calls.
C5_CloseReopen ==
    [][(ret.op = "Close" /\ ret'.op = "Open" /\ ret'.err = ErrNone)
        => Contents(memtable') = ref]_vars

\* C6: a Flush call that fails (file creation, table writing or WAL truncation) has
\* no observable effect: the memtable and wal.log are as they were before the call.
C6_FlushAtomic ==
    [][(ret'.op = "Flush" /\ ret'.err # ErrNone)
        => /\ memtable' = memtable
           /\ walFile' = walFile]_vars

\* C7: when creating or writing the table file fails during a flush, the failure is
\* returned to the caller of the operation that ran the flush (Flush, Put or Close),
\* and every key the memtable held is still returned by Get.
C7_FlushFailureSurfaced ==
    [][(ret'.op \in {"Flush", "Put", "Close"} /\ ret'.flushErr \in {ErrInvalid, ErrWrite})
        => /\ ret'.err = ret'.flushErr
           /\ ret'.op # "Close" =>
                 \A k \in DOMAIN Contents(memtable) :
                     SkipListGet(memtable', k).err = ErrNone]_vars

\* C8: with concurrent callers of Put and Flush, a Put that returned success is
\* afterwards in the active memtable with its record in wal.log, or in a table file.
C8_PutSurvives ==
    \A k \in DOMAIN ref :
        \/ k \in DOMAIN Contents(memtable) /\ k \in WalPutKeys(walFile.bytes, 1)
        \/ \E n \in DOMAIN sstFiles :
              \E i \in 1..Len(TablePairs(sstFiles[n])) : TablePairs(sstFiles[n])[i].key = k

C10_TableImmutable ==
    [][\A n \in DOMAIN sstFiles :
          n \in DOMAIN sstFiles' /\ sstFiles'[n] = sstFiles[n]]_vars

\* C11: the records written with Writer.Append are read back by Reader.Next as the
\* identical sequence (type, key, and value for Put) in append order, and then the
\* reader reports the end of the stream with ok = false and no error.
C11_WalRoundTrip ==
    \A all \in { ReadAll(walFile.bytes) } :
        /\ all.err = ErrNone
        /\ Len(all.recs) = Len(local)
        /\ \A i \in 1..Len(local) :
              /\ all.recs[i].type = local[i].type
              /\ all.recs[i].key = local[i].key
              /\ local[i].type = OpPut => all.recs[i].value = local[i].value

\* three records were appended, a Put with an empty value and a Delete among them
C11_ThreeRecords ==
    /\ Len(local) = MaxWalRecs
    /\ \E i \in 1..Len(local) : local[i].type = OpPut /\ local[i].value = << >>
    /\ \E i \in 1..Len(local) : local[i].type = OpDelete /\ local[i].key # << >>
    /\ Len(ReadAll(walFile.bytes).recs) = MaxWalRecs

\* C12: when wal.log ends inside a record after N complete records, the reader
\* delivers exactly the first N records and ends without returning an error.
C12_TornTailNoError ==
    pc = "torn"
    => \A all \in { ReadAll(walFile.bytes) } :
          /\ all.recs = [i \in 1..(Len(local) - 1) |-> Delivered(local[i])]
          /\ all.err = ErrNone

\* C13: the skip list behaves as a map: Get(k) returns the last value put for k, or
\* ErrNotFound when k is absent; a Put never creates a second node for a key; a
\* Delete of a present key succeeds and removes it; a Delete of an absent key returns
\* ErrNotFound and changes nothing.
C13_SkipListIsMap ==
    /\ [](/\ \A k \in SlKeys : SkipListGet(memtable, k) = RefGet(ref, k)
          /\ Cardinality(DOMAIN memtable) = 1 + Cardinality(DOMAIN ref)
          /\ \A k \in SlKeys :
                Cardinality({ j \in 1..Len(LevelNodes(memtable, 1)) :
                                memtable[LevelNodes(memtable, 1)[j]].key = k }) <= 1)
    /\ [][/\ ret'.op = "Put" => ret'.err = ErrNone
          /\ (ret'.op = "Delete" /\ ret'.err = ErrNone) => local'.key \in DOMAIN ref
          /\ (ret'.op = "Delete" /\ ret'.err # ErrNone)
                => /\ ret'.err = ErrNotFound
                   /\ local'.key \notin DOMAIN ref
                   /\ memtable' = memtable]_vars

\* a list of three keys after an overwrite and a successful Delete
C13_OverwrittenAndDeleted ==
    /\ Cardinality(DOMAIN ref) = 3
    /\ \E k \in DOMAIN ref : ref[k] = <<2>>
    /\ ret.op = "Delete"
    /\ ret.err = ErrNone

\* C14: Scan(a, b) yields exactly the current keys k with a <= k < b, each once, in
\* strictly ascending order; a nil start is no lower bound, a nil end no upper bound.
C14_ScanRange ==
    \A start \in ScanBounds, end \in ScanBounds :
        \A keys \in { PairKeys(Scan(memtable, start, end)) } :
            /\ \A i \in 1..(Len(keys) - 1) : Compare(keys[i], keys[i + 1]) < 0
            /\ { keys[i] : i \in 1..Len(keys) }
                  = { k \in DOMAIN ref :
                        /\ start.nil \/ Compare(start.b, k) <= 0
                        /\ end.nil \/ Compare(k, end.b) < 0 }

\* C15: on a filter of size >= 1, MayContain(k) is true for every key k that was
\* added, no Add or MayContain call clears a set bit, and MayContain(k) is true
\* exactly when every bit index computed for k is set.
C15_BloomNoFalseNegatives ==
    /\ [](/\ \A k \in local.added : FilterMayContain(local.f, k, 1)
          /\ \A k \in BloomKeys :
                FilterMayContain(local.f, k, 1)
                   <=> \A i \in BloomIndexes(local.f, k) : local.f.bitSet[i]
          /\ ret.op = "MayContain"
                => (ret.ok <=> \A i \in BloomIndexes(local.f, ret.key) : local.f.bitSet[i]))
    /\ [][/\ local'.f.size = local.f.size
          /\ \A i \in 0..(local.f.size - 1) : local.f.bitSet[i] => local'.f.bitSet[i]]_vars

\* two keys were added to a filter of several bits and hashes, MayContain answered
\* true for an added key, and some other key is still reported absent
C15_AddedKeyFound ==
    /\ local.f.size >= 3
    /\ local.f.hashes >= 2
    /\ Cardinality(local.added) >= 2
    /\ ret.op = "MayContain"
    /\ ret.key \in local.added
    /\ ret.ok
    /\ \E k \in BloomKeys : ~FilterMayContain(local.f, k, 1)

\* C16: for a set of pairs sorted ascending by key, written with one WriteBlock and
\* indexed with BuildSparseIndex, GetValue(k) returns the original value for every
\* key k of the set and nil for every key not in the set.
C16_TableRoundTrip ==
    (pc = "indexed" /\ Len(local.blocks) = 1)
    => /\ ret.op = "BuildSparseIndex" => ret.err = ErrNone
       /\ \A k \in SstKeys :
             GetValue(local.file, local.sparseIndexs, k) = PairsGet(local.blocks[1], k)
       /\ ret.op = "GetValue" => ret.value = PairsGet(local.blocks[1], ret.key)

\* C19: BuildSparseIndex records one index entry per block written: the entries are
\* ordered by key range, their byte ranges are contiguous from offset 0 and cover
\* the whole file, and each entry's startKey and endKey are the first and last key
\* stored in its block, for one or for several WriteBlock calls.  Stated here for
\* files whose keys are all non-empty.
C19_IndexEntryPerBlock ==
    (pc = "indexed" /\ SstNoEmptyKey)
    => \A written \in { SelectSeq(local.blocks, LAMBDA b : b # << >>) } :
       \A idx \in { local.sparseIndexs } :
          /\ Len(idx) = Len(written)
          /\ \A i \in 1..Len(idx) :
                /\ idx[i].startKey = written[i][1].key
                /\ idx[i].endKey = written[i][Len(written[i])].key
                /\ idx[i].offset = IF i = 1 THEN 0 ELSE idx[i - 1].offset + idx[i - 1].size
                /\ i > 1 => Compare(idx[i - 1].endKey, idx[i].startKey) < 0
          /\ (IF idx = << >> THEN 0 ELSE idx[Len(idx)].offset + idx[Len(idx)].size)
                = Len(local.file)

\* the bytes (len(key) + len(value)) of the Put records from position i on
RECURSIVE PutBytesFrom(_, _)
PutBytesFrom(recs, i) ==
    IF i > Len(recs) THEN 0
    ELSE (IF recs[i].type = OpPut THEN Len(recs[i].key) + Len(recs[i].value) ELSE 0)
         + PutBytesFrom(recs, i + 1)

\* the bytes put into the memtable since the last flush: where every flush truncates
\* wal.log, they are the bytes of the Put records the log holds
WalPutBytes(f) == Only({ PutBytesFrom(all.recs, 1) : all \in { ReadAll(f) } })

\* C17: Put runs Flush before returning exactly when MemtableFlushThreshold is
\* non-zero and the bytes (len(key) + len(value)) put since the last flush exceed it;
\* memSize equals that byte count in every reachable state, so it is zero after every
\* flush, triggered by Put or called directly.
C17_FlushWhenExceeded ==
    /\ [](phase = "open" => memSize = WalPutBytes(walFile.bytes))
    /\ [][/\ (ret'.op = "Put" /\ ret'.flushErr # NoFlush)
                => /\ options > 0
                   /\ \E k \in Keys, v \in Values :
                         WalPutBytes(walFile.bytes) + Len(k) + Len(v) > options
          /\ (ret'.op = "Put" /\ ret'.flushErr = NoFlush)
                => ~(options > 0 /\ WalPutBytes(walFile'.bytes) > options)
          /\ (ret'.op = "Flush" /\ ret'.err = ErrNone) => memSize' = 0]_vars

\* C18: at every level the links from the head visit keys in strictly increasing
\* order, every node linked at level i > 1 is linked at level i - 1, and a node that
\* Delete removed is linked at no level.
C18_SkipListStructure ==
    /\ [](\A i \in 1..MaxLevel :
            \A nodes \in { LevelNodes(memtable, i) } :
                /\ \A j \in 1..(Len(nodes) - 1) :
                      Compare(memtable[nodes[j]].key, memtable[nodes[j + 1]].key) < 0
                /\ \A j \in 1..Len(nodes) : Len(memtable[nodes[j]].next) >= i
                /\ i > 1 => \A j \in 1..Len(nodes) :
                               \E m \in 1..Len(LevelNodes(memtable, i - 1)) :
                                   LevelNodes(memtable, i - 1)[m] = nodes[j])
    /\ [][(ret'.op = "Delete" /\ ret'.err = ErrNone)
            => \A x \in { SkipListGet(memtable, local'.key) } :
               \A after \in { SkipListDelete(memtable, local'.key).sl } :
                  \A i \in 1..MaxLevel :
                     \A j \in 1..Len(LevelNodes(after, i)) :
                        after[LevelNodes(after, i)[j]].key # local'.key]_vars

\* a node of the top level was deleted from a list that keeps a node on that level
C18_DeletedTallNode ==
    /\ ret.op = "Delete"
    /\ ret.err = ErrNone
    /\ Len(LevelNodes(memtable, MaxLevel)) >= 1
    /\ Len(LevelNodes(memtable, 1)) >= 2

\* the map that replaying records i.. into m gives: Put overwrites, Delete removes
RECURSIVE ReplayMap(_, _, _)
ReplayMap(m, recs, i) ==
    IF i > Len(recs) THEN m
    ELSE ReplayMap(IF recs[i].type = OpPut THEN MapPut(m, recs[i].key, recs[i].value)
                   ELSE MapDelete(m, recs[i].key),
                   recs, i + 1)

\* C20: between engine calls, in every state reachable by Open, Put, Delete and
\* Flush, replaying wal.log into an empty map gives exactly the content of the active
\* memtable, also after a Delete of an absent key and after a Flush whose WAL
\* truncation fails.
C20_WalMatchesMemtable ==
    phase = "open"
    => \A all \in { ReadAll(walFile.bytes) } :
          Contents(memtable) = ReplayMap(EmptyMap, all.recs, 1)

====
